---- MODULE Spec2Model ----
(***************************************************************************)
(* CloudPulse: the SDK clients (TypeScript, JavaScript, Go), the MCP       *)
(* server, the anomaly alert configuration, the AWS account connection     *)
(* flow, the Terraform provider and the React auth provider, each as a     *)
(* state machine translated from its source.                               *)
(***************************************************************************)
EXTENDS Integers, Sequences, FiniteSets, TLC

VARIABLES
    sdkOpts,      \* options the SDK client was constructed with
    sdkClient,    \* the constructed client: its fields after the constructor
    sdkCall,      \* the resource method call in progress
    sdkPc,        \* "idle" | "sent" | "done"
    sdkWire,      \* HTTP requests placed on the wire by the call in progress
    sdkResp,      \* the HTTP response the call received
    sdkResult     \* what the call handed back to its caller

sdkVars == <<sdkOpts, sdkClient, sdkCall, sdkPc, sdkWire, sdkResp, sdkResult>>

VARIABLES
    mcpEnv,       \* CLOUDPULSE_API_URL / CLOUDPULSE_API_TOKEN as read at module load
    mcpPc,        \* "idle" | "calling" | "done"
    mcpReq,       \* the MCP request being handled
    mcpApi,       \* CloudPulse API requests the handler has sent
    mcpReply      \* the handler's reply to the MCP client

mcpVars == <<mcpEnv, mcpPc, mcpReq, mcpApi, mcpReply>>

VARIABLES
    anomStorage,     \* localStorage item cp_anomaly_config: the saved configuration, if any
    anomConfig,      \* alertConfig state of the Anomalies page
    anomShowConfig,  \* whether the Alert Configuration modal is open
    anomDetected     \* the anomaly record the detector last produced

anomVars == <<anomStorage, anomConfig, anomShowConfig, anomDetected>>

VARIABLES
    authStorage,    \* localStorage item cloudpulse_token ("" when absent)
    authToken,      \* token state of AuthProvider ("" for null)
    authUser,       \* user state of AuthProvider ("" for null)
    authLoading,    \* loading state of AuthProvider
    authMe,         \* tokens of the /api/v1/auth/me requests in flight
    authPending,    \* login and signup requests in flight
    authLoginBusy   \* loading state of the mounted Login page

authVars == <<authStorage, authToken, authUser, authLoading, authMe, authPending, authLoginBusy>>

VARIABLES
    awsRoleArn,      \* roleArn state of the Settings page, as its characters
    awsExternalId,   \* externalId state ("" until a template was downloaded)
    awsGenerated,    \* every external ID handleDownloadTemplate has generated
    awsConnecting,   \* connectingAws state
    awsError,        \* connectError state
    awsInflight,     \* connect requests not yet answered
    awsWire          \* the requests the last handler step sent

awsVars == <<awsRoleArn, awsExternalId, awsGenerated, awsConnecting, awsError, awsInflight, awsWire>>

VARIABLES
    tfEnv,          \* CLOUDPULSE_API_TOKEN in the provider's environment ("" when unset)
    tfConfig,       \* the provider block: api_token and host ("" when not set)
    tfPc,           \* "new" | "configured"
    tfClient,       \* what Configure handed to resources and data sources
    tfSchema,       \* the resource and data source types the provider has reported
    tfLookup        \* Terraform's last lookup of a type a configuration uses

tfVars == <<tfEnv, tfConfig, tfPc, tfClient, tfSchema, tfLookup>>

VARIABLES
    keySection,     \* activeSection state of the Settings page
    keyTokens,      \* apiTokens state: the rows of the token list
    keyShowCreate,  \* showCreateToken state: whether the create form is open
    keyName,        \* newTokenName state, as its characters
    keyCreated,     \* createdToken state (<<>> for null)
    keyVisible,     \* tokenVisible state
    keyLoading,     \* loadingTokens state
    keyInflight,    \* requests to /api/v2/api_tokens not answered yet
    keyServer,      \* the API's active tokens, as it lists them
    keyIssued       \* how many tokens the API has issued

keyVars == <<keySection, keyTokens, keyShowCreate, keyName, keyCreated,
             keyVisible, keyLoading, keyInflight, keyServer, keyIssued>>

VARIABLES
    budServer,      \* ids of the budgets the API holds
    budBudgets,     \* budgets state of the Budgets page: the ids listed
    budSelected,    \* selectedBudget state (0 for null)
    budRefreshing,  \* refreshing state
    budInflight,    \* handleDelete / handleRefresh calls waiting for the API
    repServer,      \* ids of the shared reports the API holds
    repReports,     \* reports state of the Reports page: the ids listed
    repCreating,    \* creating state
    repInflight     \* handleCreate calls waiting for the API

listVars == <<budServer, budBudgets, budSelected, budRefreshing, budInflight,
              repServer, repReports, repCreating, repInflight>>

\* the variables an action of one part leaves alone
notSdk == <<mcpVars, anomVars, authVars, awsVars, tfVars, keyVars, listVars>>
notMcp == <<sdkVars, anomVars, authVars, awsVars, tfVars, keyVars, listVars>>
notAnom == <<sdkVars, mcpVars, authVars, awsVars, tfVars, keyVars, listVars>>
notAuth == <<sdkVars, mcpVars, anomVars, awsVars, tfVars, keyVars, listVars>>
notAws == <<sdkVars, mcpVars, anomVars, authVars, tfVars, keyVars, listVars>>
notTf == <<sdkVars, mcpVars, anomVars, authVars, awsVars, keyVars, listVars>>
notKey == <<sdkVars, mcpVars, anomVars, authVars, awsVars, tfVars, listVars>>
notList == <<sdkVars, mcpVars, anomVars, authVars, awsVars, tfVars, keyVars>>

vars == <<sdkVars, mcpVars, anomVars, authVars, awsVars, tfVars, keyVars, listVars>>

(***************************************************************************)
(* Strings.  A string the code inspects character by character is a        *)
(* sequence of pieces; Join gives the string it denotes.                   *)
(***************************************************************************)
RECURSIVE Join(_)
Join(ps) == IF ps = <<>> THEN "" ELSE Head(ps) \o Join(Tail(ps))

\* s.replace(/\/$/, ''): removes one trailing slash, if there is one
StripTrailingSlash(ps) ==
    IF ps # <<>> /\ ps[Len(ps)] = "/" THEN SubSeq(ps, 1, Len(ps) - 1) ELSE ps

Digit(d) ==
    CASE d = 0 -> "0" [] d = 1 -> "1" [] d = 2 -> "2" [] d = 3 -> "3" [] d = 4 -> "4"
      [] d = 5 -> "5" [] d = 6 -> "6" [] d = 7 -> "7" [] d = 8 -> "8" [] d = 9 -> "9"

\* fmt.Sprintf("%d", n) and String(n) for an integer n
RECURSIVE IntToStr(_)
IntToStr(n) ==
    IF n < 0 THEN "-" \o IntToStr(0 - n)
    ELSE IF n < 10 THEN Digit(n)
    ELSE IntToStr(n \div 10) \o Digit(n % 10)

(***************************************************************************)
(* Bounds of the model.                                                    *)
(***************************************************************************)
MaxPage == 1

DefaultBaseURL == <<"https://api.cloudpulse.dev">>

Langs == {"ts", "js", "go"}
ApiTokens == {"cpls_a", "cpls_b"}
BaseUrlChoices ==
    { <<>>, <<"https://cp.example">>, <<"https://cp.example", "/">> }
ItemTokens == {"tok_1"}
WorkspaceTokens == {"", "ws_1"}
PageValues == (0 - 1) .. MaxPage

(***************************************************************************)
(* SDK clients.  Construction.                                             *)
(***************************************************************************)
\* new CloudPulseClient({apiToken, baseUrl}) of the TypeScript SDK:
\* options.baseUrl || default treats the empty string as absent
TsConstructor(o) ==
    [ lang    |-> "ts",
      baseUrl |-> Join(StripTrailingSlash(
                      IF o.hasBaseUrl /\ o.baseUrl # <<>> THEN o.baseUrl
                      ELSE DefaultBaseURL)) \o "/api/v2",
      auth    |-> "Bearer " \o o.apiToken ]

\* new CloudPulseClient({apiToken, baseUrl = default}) of the JavaScript SDK:
\* the default applies only when baseUrl is undefined
JsConstructor(o) ==
    [ lang    |-> "js",
      baseUrl |-> Join(StripTrailingSlash(
                      IF o.hasBaseUrl THEN o.baseUrl ELSE DefaultBaseURL)) \o "/api/v2",
      auth    |-> "Bearer " \o o.apiToken ]

\* cloudpulse.NewClient(apiToken); doRequest sends "Bearer "+c.APIToken
NewClient(o) ==
    [ lang    |-> "go",
      baseUrl |-> Join(DefaultBaseURL) \o "/api/" \o "v2",
      auth    |-> "Bearer " \o o.apiToken ]

Construct(o) ==
    CASE o.lang = "ts" -> TsConstructor(o)
      [] o.lang = "js" -> JsConstructor(o)
      [] o.lang = "go" -> NewClient(o)

SdkOptions ==
    { [lang |-> l, apiToken |-> t, hasBaseUrl |-> h, baseUrl |-> b] :
        l \in {"ts", "js"}, t \in ApiTokens, h \in {TRUE}, b \in BaseUrlChoices }
    \cup { [lang |-> l, apiToken |-> t, hasBaseUrl |-> FALSE, baseUrl |-> <<>>] :
        l \in Langs, t \in ApiTokens }

(***************************************************************************)
(* SDK clients.  The resources and methods each client exposes.            *)
(***************************************************************************)
CrudOps == {"list", "get", "create", "update", "delete"}
TokenOps == {"list", "create", "revoke"}

\* the resource classes of index.ts and the fields of its CloudPulseClient
TsResources ==
    [ workspaces   |-> [path |-> "/workspaces",   ops |-> CrudOps],
      cost_reports |-> [path |-> "/cost_reports", ops |-> CrudOps],
      folders      |-> [path |-> "/folders",      ops |-> CrudOps],
      segments     |-> [path |-> "/segments",     ops |-> CrudOps],
      teams        |-> [path |-> "/teams",        ops |-> CrudOps],
      virtual_tags |-> [path |-> "/virtual_tags", ops |-> CrudOps],
      api_tokens   |-> [path |-> "/api_tokens",   ops |-> TokenOps] ]

\* the Resource / TokensResource instances the JavaScript constructor creates
JsResources ==
    [ workspaces       |-> [path |-> "/workspaces",       ops |-> CrudOps],
      cost_reports     |-> [path |-> "/cost_reports",     ops |-> CrudOps],
      folders          |-> [path |-> "/folders",          ops |-> CrudOps],
      saved_filters    |-> [path |-> "/saved_filters",    ops |-> CrudOps],
      dashboards       |-> [path |-> "/dashboards",       ops |-> CrudOps],
      segments         |-> [path |-> "/segments",         ops |-> CrudOps],
      teams            |-> [path |-> "/teams",            ops |-> CrudOps],
      access_grants    |-> [path |-> "/access_grants",    ops |-> CrudOps],
      virtual_tags     |-> [path |-> "/virtual_tags",     ops |-> CrudOps],
      api_tokens       |-> [path |-> "/api_tokens",       ops |-> TokenOps],
      resource_reports |-> [path |-> "/resource_reports", ops |-> CrudOps] ]

\* the services of client.go and the methods each defines
GoServices ==
    [ workspaces   |-> [path |-> "/workspaces",   ops |-> {"list", "get", "create", "delete"}],
      cost_reports |-> [path |-> "/cost_reports", ops |-> {"list", "get", "create", "delete"}],
      folders      |-> [path |-> "/folders",      ops |-> {"list", "create", "delete"}],
      segments     |-> [path |-> "/segments",     ops |-> {"list", "create", "delete"}],
      teams        |-> [path |-> "/teams",        ops |-> {"list", "create", "delete"}],
      virtual_tags |-> [path |-> "/virtual_tags", ops |-> {"list", "create", "delete"}],
      api_tokens   |-> [path |-> "/api_tokens",   ops |-> TokenOps] ]

ResourcesOf(lang) ==
    CASE lang = "ts" -> TsResources
      [] lang = "js" -> JsResources
      [] lang = "go" -> GoServices

Exposed(lang, res, op) ==
    /\ res \in DOMAIN ResourcesOf(lang)
    /\ op \in ResourcesOf(lang)[res].ops

(***************************************************************************)
(* SDK clients.  Query strings.  A query is the sequence of its            *)
(* <<key, value>> pairs; the empty sequence is the empty string (no "?").  *)
(***************************************************************************)
NumEntry(k, n) == [k |-> k, kind |-> "number", n |-> n, s |-> ""]
StrEntry(k, str) == [k |-> k, kind |-> "string", n |-> 0, s |-> str]
UndefEntry(k) == [k |-> k, kind |-> "undefined", n |-> 0, s |-> ""]
NullEntry(k) == [k |-> k, kind |-> "null", n |-> 0, s |-> ""]

\* String(v)
JsString(e) ==
    CASE e.kind = "number" -> IntToStr(e.n)
      [] e.kind = "string" -> e.s
      [] e.kind = "null" -> "null"
      [] e.kind = "undefined" -> "undefined"

\* index.ts request: for (const [k, v] of Object.entries(params)) if (v !== undefined) qs.set
RECURSIVE TsSearchParams(_)
TsSearchParams(es) ==
    IF es = <<>> THEN <<>>
    ELSE (IF Head(es).kind # "undefined" THEN << <<Head(es).k, JsString(Head(es))>> >> ELSE <<>>)
         \o TsSearchParams(Tail(es))

\* JavaScript request: if (v !== undefined && v !== null) qs.set
RECURSIVE JsSearchParams(_)
JsSearchParams(es) ==
    IF es = <<>> THEN <<>>
    ELSE (IF Head(es).kind \notin {"undefined", "null"}
          THEN << <<Head(es).k, JsString(Head(es))>> >> ELSE <<>>)
         \o JsSearchParams(Tail(es))

\* url.Values.Encode: the pairs sorted by key
EncodeKeyOrder == <<"limit", "page", "workspace_token">>

RECURSIVE EncodeFrom(_, _)
EncodeFrom(keys, v) ==
    IF keys = <<>> THEN <<>>
    ELSE LET hits == {p \in v : p[1] = Head(keys)}
         IN  (IF hits = {} THEN <<>> ELSE << CHOOSE p \in hits : TRUE >>)
             \o EncodeFrom(Tail(keys), v)

Encode(v) == EncodeFrom(EncodeKeyOrder, v)

\* toQuery with >= 0 in place of > 0 for Page
toQueryZeroPage(p) ==
    LET v == IF ~p.isNil
             THEN (IF p.Page >= 0 THEN {<<"page", IntToStr(p.Page)>>} ELSE {})
                  \cup (IF p.Limit > 0 THEN {<<"limit", IntToStr(p.Limit)>>} ELSE {})
                  \cup (IF p.WorkspaceToken # ""
                        THEN {<<"workspace_token", p.WorkspaceToken>>} ELSE {})
             ELSE {}
    IN  IF Cardinality(v) > 0 THEN Encode(v) ELSE <<>>

\* (p *ListParams) toQuery()
toQuery(p) ==
    LET v == IF ~p.isNil
             THEN (IF p.Page > 0 THEN {<<"page", IntToStr(p.Page)>>} ELSE {})
                  \cup (IF p.Limit > 0 THEN {<<"limit", IntToStr(p.Limit)>>} ELSE {})
                  \cup (IF p.WorkspaceToken # ""
                        THEN {<<"workspace_token", p.WorkspaceToken>>} ELSE {})
             ELSE {}
    IN  IF Cardinality(v) > 0 THEN Encode(v) ELSE <<>>

NilParams == [isNil |-> TRUE, Page |-> 0, Limit |-> 0, WorkspaceToken |-> ""]

GoParamChoices ==
    {NilParams} \cup
    { [isNil |-> FALSE, Page |-> pg, Limit |-> lm, WorkspaceToken |-> w] :
        pg \in PageValues, lm \in PageValues, w \in WorkspaceTokens }

JsParamChoices ==
    { <<>>,
      << NumEntry("page", 1) >>,
      << StrEntry("workspace_token", "ws_1"), NumEntry("limit", MaxPage) >>,
      << UndefEntry("page"), NullEntry("limit") >> }

(***************************************************************************)
(* SDK clients.  The one place each client talks HTTP.                     *)
(***************************************************************************)
\* a request that forgets the client's Authorization header
TsRequestNoAuth(c, method, path, hasBody, hasParams, params) ==
    [ method  |-> method,
      url     |-> [str |-> c.baseUrl \o path,
                   query |-> IF hasParams THEN TsSearchParams(params) ELSE <<>>],
      auth    |-> "",
      hasBody |-> hasBody ]

\* CloudPulseClient.request of index.ts, up to its await fetch(...)
TsRequest(c, method, path, hasBody, hasParams, params) ==
    [ method  |-> method,
      url     |-> [str |-> c.baseUrl \o path,
                   query |-> IF hasParams THEN TsSearchParams(params) ELSE <<>>],
      auth    |-> c.auth,
      hasBody |-> hasBody ]

\* CloudPulseClient.request of the JavaScript SDK, up to its await fetch(...)
JsRequest(c, method, path, hasBody, hasParams, params) ==
    [ method  |-> method,
      url     |-> [str |-> c.baseUrl \o path,
                   query |-> IF hasParams THEN JsSearchParams(params) ELSE <<>>],
      auth    |-> c.auth,
      hasBody |-> hasBody ]

\* Client.doRequest, up to c.HTTPClient.Do(req); the caller has appended the query
doRequest(c, method, path, query, hasBody) ==
    [ method  |-> method,
      url     |-> [str |-> c.baseUrl \o path, query |-> query],
      auth    |-> c.auth,
      hasBody |-> hasBody ]

\* the resource methods of index.ts (Resource.get/post/put/del and the classes over them)
TsMethod(c, call) ==
    LET path == TsResources[call.res].path
        item == path \o "/" \o call.arg
    IN  CASE call.op = "list"   -> TsRequest(c, "GET", path, FALSE, call.hasParams, call.jsParams)
          [] call.op = "get"    -> TsRequest(c, "GET", item, FALSE, FALSE, <<>>)
          [] call.op = "create" -> TsRequest(c, "POST", path, TRUE, FALSE, <<>>)
          [] call.op = "update" -> TsRequest(c, "PUT", item, TRUE, FALSE, <<>>)
          [] call.op = "delete" -> TsRequest(c, "DELETE", item, FALSE, FALSE, <<>>)
          [] call.op = "revoke" -> TsRequest(c, "DELETE", item, FALSE, FALSE, <<>>)

\* Resource and TokensResource of the JavaScript SDK
JsMethod(c, call) ==
    LET path == JsResources[call.res].path
        item == path \o "/" \o call.arg
    IN  CASE call.op = "list"   -> JsRequest(c, "GET", path, FALSE, call.hasParams, call.jsParams)
          [] call.op = "get"    -> JsRequest(c, "GET", item, FALSE, FALSE, <<>>)
          [] call.op = "create" -> JsRequest(c, "POST", path, TRUE, FALSE, <<>>)
          [] call.op = "update" -> JsRequest(c, "PUT", item, TRUE, FALSE, <<>>)
          [] call.op = "delete" -> JsRequest(c, "DELETE", item, FALSE, FALSE, <<>>)
          [] call.op = "revoke" -> JsRequest(c, "DELETE", item, FALSE, FALSE, <<>>)

\* the List/Get/Create/Delete/Revoke methods of the services of client.go;
\* APITokensService.List takes no params
GoMethod(c, call) ==
    LET path == GoServices[call.res].path
        item == path \o "/" \o call.arg
    IN  CASE call.op = "list"   ->
               doRequest(c, "GET", path,
                         IF call.res = "api_tokens" THEN <<>> ELSE toQuery(call.goParams),
                         FALSE)
          [] call.op = "get"    -> doRequest(c, "GET", item, <<>>, FALSE)
          [] call.op = "create" -> doRequest(c, "POST", path, <<>>, TRUE)
          [] call.op = "delete" -> doRequest(c, "DELETE", item, <<>>, FALSE)
          [] call.op = "revoke" -> doRequest(c, "DELETE", item, <<>>, FALSE)

RequestOf(c, call) ==
    CASE c.lang = "ts" -> TsMethod(c, call)
      [] c.lang = "js" -> JsMethod(c, call)
      [] c.lang = "go" -> GoMethod(c, call)

(***************************************************************************)
(* SDK clients.  Responses.                                                *)
(***************************************************************************)
Statuses == {200, 204, 304, 404, 500}

\* a response body: JSON carrying a detail, JSON without one, or not JSON at all
Bodies ==
    { [json |-> TRUE, detail |-> "not found"],
      [json |-> TRUE, detail |-> ""],
      [json |-> FALSE, detail |-> ""] }

Responses == { [status |-> st, body |-> b] : st \in Statuses, b \in Bodies }

StatusText(st) ==
    CASE st = 200 -> "OK"
      [] st = 204 -> "No Content"
      [] st = 304 -> "Not Modified"
      [] st = 404 -> "Not Found"
      [] st = 500 -> "Internal Server Error"
      [] OTHER -> ""

\* the bytes of the body, as pieces
BodyText(b) ==
    IF b.json
    THEN (IF b.detail # "" THEN <<"{detail:", b.detail, "}">> ELSE <<"{}">>)
    ELSE <<"<html>">>

NoResult == [kind |-> "none", message |-> <<>>]

\* Response.ok
ResOk(r) == r.status >= 200 /\ r.status <= 299

\* request of index.ts and of the JavaScript SDK, after await fetch(...)
JsAfterFetch(r) ==
    IF ~ResOk(r)
    THEN LET errDetail == IF r.body.json THEN r.body.detail ELSE StatusText(r.status)
         IN  [ kind |-> "error",
               message |-> << "CloudPulse API error ", IntToStr(r.status), ": ",
                              IF errDetail # "" THEN errDetail ELSE "Unknown error" >> ]
    ELSE IF r.body.json
         THEN [kind |-> "ok", message |-> BodyText(r.body)]
         ELSE [kind |-> "parse_error", message |-> <<"SyntaxError">>]

\* doRequest after c.HTTPClient.Do(req), then the service method's json.Unmarshal
GoAfterDo(r) ==
    IF r.status >= 400
    THEN [ kind |-> "error",
           message |-> <<"API error ", IntToStr(r.status), ": ">> \o BodyText(r.body) ]
    ELSE IF r.body.json
         THEN [kind |-> "ok", message |-> BodyText(r.body)]
         ELSE [kind |-> "parse_error", message |-> <<"invalid character">>]

ResultOf(c, r) == IF c.lang = "go" THEN GoAfterDo(r) ELSE JsAfterFetch(r)

(***************************************************************************)
(* SDK clients.  Calls a program can write against a client.               *)
(***************************************************************************)
AllResources == DOMAIN JsResources
AllOps == CrudOps \cup TokenOps

NoCall ==
    [res |-> "", op |-> "", arg |-> "", hasParams |-> FALSE, jsParams |-> <<>>,
     goParams |-> NilParams]

ItemOps == {"get", "update", "delete", "revoke"}

SdkCalls(lang) ==
    { [res |-> r, op |-> o, arg |-> a, hasParams |-> FALSE, jsParams |-> <<>>,
       goParams |-> NilParams] :
        r \in AllResources, o \in ItemOps, a \in ItemTokens }
    \cup { [res |-> r, op |-> "create", arg |-> "", hasParams |-> FALSE, jsParams |-> <<>>,
            goParams |-> NilParams] : r \in AllResources }
    \cup (IF lang = "go"
          THEN { [res |-> r, op |-> "list", arg |-> "", hasParams |-> FALSE,
                  jsParams |-> <<>>, goParams |-> g] :
                    r \in AllResources, g \in GoParamChoices }
          ELSE { [res |-> r, op |-> "list", arg |-> "", hasParams |-> h,
                  jsParams |-> IF h THEN j ELSE <<>>, goParams |-> NilParams] :
                    r \in AllResources, h \in BOOLEAN, j \in JsParamChoices })

SdkInit ==
    /\ sdkOpts \in SdkOptions
    /\ sdkClient = Construct(sdkOpts)
    /\ sdkCall = NoCall
    /\ sdkPc = "idle"
    /\ sdkWire = <<>>
    /\ sdkResp = [status |-> 0, body |-> [json |-> FALSE, detail |-> ""]]
    /\ sdkResult = NoResult

\* a caller invokes client.<resource>.<method>(...): the method runs up to the
\* point where the HTTP request is on the wire; a method the client does not
\* have cannot be invoked
SdkCall(call) ==
    /\ sdkPc = "idle"
    /\ sdkCall' = call
    /\ sdkResp' = [status |-> 0, body |-> [json |-> FALSE, detail |-> ""]]
    /\ IF Exposed(sdkClient.lang, call.res, call.op)
       THEN /\ sdkWire' = << RequestOf(sdkClient, call) >>
            /\ sdkPc' = "sent"
            /\ sdkResult' = NoResult
       ELSE /\ sdkWire' = <<>>
            /\ sdkPc' = "done"
            /\ sdkResult' = [kind |-> "no_such_method", message |-> <<>>]
    /\ UNCHANGED <<sdkOpts, sdkClient, notSdk>>

\* the response arrives and the method returns or throws
SdkRespond(r) ==
    /\ sdkPc = "sent"
    /\ sdkResp' = r
    /\ sdkResult' = ResultOf(sdkClient, r)
    /\ sdkPc' = "done"
    /\ UNCHANGED <<sdkOpts, sdkClient, sdkCall, sdkWire, notSdk>>

\* fetch rejects / HTTPClient.Do returns an error: no response at all
SdkNetworkError ==
    /\ sdkPc = "sent"
    /\ sdkResult' = [kind |-> "network_error", message |-> <<>>]
    /\ sdkPc' = "done"
    /\ UNCHANGED <<sdkOpts, sdkClient, sdkCall, sdkWire, sdkResp, notSdk>>

\* the caller has taken the result; the client is ready for the next call
SdkReturn ==
    /\ sdkPc = "done"
    /\ sdkPc' = "idle"
    /\ sdkCall' = NoCall
    /\ sdkWire' = <<>>
    /\ sdkResp' = [status |-> 0, body |-> [json |-> FALSE, detail |-> ""]]
    /\ sdkResult' = NoResult
    /\ UNCHANGED <<sdkOpts, sdkClient, notSdk>>

SdkNext ==
    \/ \E call \in SdkCalls(sdkClient.lang) : SdkCall(call)
    \/ \E r \in Responses : SdkRespond(r)
    \/ SdkNetworkError
    \/ SdkReturn


(***************************************************************************)
(* Claims about the SDK clients.                                           *)
(***************************************************************************)
Range(q) == { q[i] : i \in 1 .. Len(q) }

Dispatched == sdkPc \in {"sent", "done"} /\ Exposed(sdkClient.lang, sdkCall.res, sdkCall.op)

\* the base URL a client was configured with: the default when none was given,
\* a trailing slash not counted; an empty string given as base URL is taken by
\* the TypeScript client as "none given" and by the JavaScript client as it is
ClaimBases(o) ==
    IF ~o.hasBaseUrl THEN {Join(DefaultBaseURL)}
    ELSE IF o.baseUrl = <<>> THEN {"", Join(DefaultBaseURL)}
    ELSE {Join(StripTrailingSlash(o.baseUrl))}

ClaimPath(call) ==
    "/" \o call.res \o (IF call.op \in ItemOps THEN "/" \o call.arg ELSE "")

ClaimMethod(op) ==
    CASE op \in {"list", "get"} -> "GET"
      [] op = "create" -> "POST"
      [] op = "update" -> "PUT"
      [] op \in {"delete", "revoke"} -> "DELETE"

\* C1: a call of a resource method puts exactly one HTTP request on the wire,
\* to <base URL>/api/v2<resource path> with Authorization: Bearer <api token>,
\* both fixed by the constructor's options alone; the client's fields never
\* change after construction.
C1_ThinWrapper ==
    /\ sdkClient = Construct(sdkOpts)
    /\ (sdkPc = "idle" => sdkWire = <<>>)
    /\ (Dispatched =>
          /\ Len(sdkWire) = 1
          /\ sdkWire[1].auth = "Bearer " \o sdkOpts.apiToken
          /\ sdkWire[1].method = ClaimMethod(sdkCall.op)
          /\ sdkWire[1].url.str \in
                { b \o "/api/v2" \o ClaimPath(sdkCall) : b \in ClaimBases(sdkOpts) })

C1_Witness ==
    /\ sdkPc = "done"
    /\ sdkResult.kind = "ok"
    /\ sdkOpts.baseUrl = <<"https://cp.example", "/">>
    /\ sdkOpts.apiToken = "cpls_b"
    /\ sdkCall.op = "update"
    /\ Len(sdkWire) = 1
    /\ sdkWire[1].url.str = "https://cp.example/api/v2/teams/tok_1"

\* C2: a response whose status is not 2xx reaches the caller as an error that
\* carries the status code and the server's detail message, never as a result.
C2_NonSuccessIsError ==
    (sdkPc = "done" /\ sdkResp.status # 0 /\ ~ResOk(sdkResp)) =>
        /\ sdkResult.kind = "error"
        /\ IntToStr(sdkResp.status) \in Range(sdkResult.message)
        /\ (sdkResp.body.json /\ sdkResp.body.detail # "" =>
                sdkResp.body.detail \in Range(sdkResult.message))

\* the Resources table of the SDK README
ResourceTable ==
    { <<r, o>> : r \in {"workspaces", "cost_reports", "folders", "saved_filters",
                        "dashboards", "segments", "teams", "virtual_tags",
                        "resource_reports"}, o \in CrudOps }
    \cup { <<"access_grants", o>> : o \in {"list", "create", "delete"} }
    \cup { <<"api_tokens", o>> : o \in TokenOps }

\* C3: each client exposes exactly the resources and methods of the resource
\* table, with the same HTTP method and path: a call of a table method is
\* dispatched, and no method outside the table is.
C3_ExposesResourceTable ==
    sdkPc \in {"sent", "done"} =>
        /\ Exposed(sdkClient.lang, sdkCall.res, sdkCall.op)
              <=> <<sdkCall.res, sdkCall.op>> \in ResourceTable
        /\ (Dispatched =>
              /\ sdkWire[1].method = ClaimMethod(sdkCall.op)
              /\ sdkWire[1].url.str = sdkClient.baseUrl \o ClaimPath(sdkCall))

\* the fields of a ListParams that are set
SetFields(p) ==
    IF p.isNil THEN {}
    ELSE (IF p.Page > 0 THEN {"page"} ELSE {})
         \cup (IF p.Limit > 0 THEN {"limit"} ELSE {})
         \cup (IF p.WorkspaceToken # "" THEN {"workspace_token"} ELSE {})

\* C9: in the Go client a List call's query is empty for nil params and
\* otherwise holds exactly the set fields, once each, with their values; List(nil)
\* requests the bare collection path.
C9_ToQuery ==
    (Dispatched /\ sdkClient.lang = "go" /\ sdkCall.op = "list"
        /\ sdkCall.res # "api_tokens") =>
        LET q == sdkWire[1].url.query
            p == sdkCall.goParams
        IN  /\ (p.isNil => q = <<>>)
            /\ { kv[1] : kv \in Range(q) } = SetFields(p)
            /\ Len(q) = Cardinality(SetFields(p))
            /\ \A kv \in Range(q) :
                  \/ kv[1] = "page" /\ kv[2] = IntToStr(p.Page)
                  \/ kv[1] = "limit" /\ kv[2] = IntToStr(p.Limit)
                  \/ kv[1] = "workspace_token" /\ kv[2] = p.WorkspaceToken
            /\ sdkWire[1].url.str = sdkClient.baseUrl \o "/" \o sdkCall.res

C9_Witness ==
    /\ sdkClient.lang = "go"
    /\ sdkPc = "done"
    /\ sdkResult.kind = "ok"
    /\ sdkCall.res = "workspaces"
    /\ sdkCall.op = "list"
    /\ sdkCall.goParams.isNil
    /\ sdkWire = << [ method |-> "GET",
                      url |-> [str |-> "https://api.cloudpulse.dev/api/v2/workspaces",
                               query |-> <<>>],
                      auth |-> "Bearer cpls_a", hasBody |-> FALSE ] >>

(***************************************************************************)
(* MCP server (tools/cloudpulse-mcp-server).                               *)
(***************************************************************************)
\* the tools the file header says the server provides
HeaderTools ==
    { "list_workspaces", "get_cost_report", "list_cost_reports", "create_cost_report",
      "list_segments", "query_costs", "get_recommendations" }

\* the names in the array the ListToolsRequestSchema handler returns
ListedTools ==
    { "list_workspaces", "list_cost_reports", "get_cost_report", "create_cost_report",
      "list_segments" }

McpToolNames == HeaderTools \cup {"no_such_tool"}

\* arguments of a tool call; "" stands for an argument that was not given
McpArgs == { [workspace_token |-> w, token |-> t] : w \in {"", "ws_1"}, t \in {"", "cr_1"} }

McpEnvs == { [apiUrl |-> u, apiToken |-> t] : u \in {"", "http://localhost:8000"},
                                               t \in {"", "cpls_a"} }

\* const API_BASE = process.env.CLOUDPULSE_API_URL || 'https://api.cloudpulse.dev'
API_BASE(env) == IF env.apiUrl # "" THEN env.apiUrl ELSE "https://api.cloudpulse.dev"

\* const API_TOKEN = process.env.CLOUDPULSE_API_TOKEN || ''
API_TOKEN(env) == env.apiToken

\* apiRequest, up to its await fetch(...)
apiRequest(env, method, path, hasBody) ==
    [ method  |-> method,
      url     |-> API_BASE(env) \o "/api/v2" \o path,
      auth    |-> "Bearer " \o API_TOKEN(env),
      hasBody |-> hasBody ]

\* apiRequest after the fetch: the parsed JSON, or the Error it throws
McpAfterFetch(r) ==
    IF ~ResOk(r)
    THEN [ kind |-> "throw",
           text |-> << "API error ", IntToStr(r.status), ": ",
                       IF r.body.json
                       THEN (IF r.body.detail # "" THEN r.body.detail ELSE "undefined")
                       ELSE StatusText(r.status) >> ]
    ELSE IF r.body.json
         THEN [kind |-> "json", text |-> BodyText(r.body)]
         ELSE [kind |-> "throw", text |-> <<"SyntaxError">>]

\* `?workspace_token=${args.workspace_token}` when the argument is truthy
McpQs(args) ==
    IF args.workspace_token # "" THEN "?workspace_token=" \o args.workspace_token ELSE ""

\* the switch of the CallToolRequestSchema handler: the API request a tool name
\* maps to; the default branch has none
McpSwitch(env, name, args) ==
    CASE name = "list_workspaces" -> << apiRequest(env, "GET", "/workspaces", FALSE) >>
      [] name = "list_cost_reports" ->
            << apiRequest(env, "GET", "/cost_reports" \o McpQs(args), FALSE) >>
      [] name = "get_cost_report" ->
            << apiRequest(env, "GET",
                          "/cost_reports/" \o (IF args.token # "" THEN args.token
                                               ELSE "undefined"), FALSE) >>
      [] name = "create_cost_report" -> << apiRequest(env, "POST", "/cost_reports", TRUE) >>
      [] name = "list_segments" ->
            << apiRequest(env, "GET", "/segments" \o McpQs(args), FALSE) >>
      [] OTHER -> <<>>

NoMcpReq == [method |-> "", name |-> "", args |-> [workspace_token |-> "", token |-> ""]]
NoMcpReply == [kind |-> "none", tools |-> {}, text |-> <<>>, isError |-> FALSE]

McpInit ==
    /\ mcpEnv \in McpEnvs
    /\ mcpPc = "idle"
    /\ mcpReq = NoMcpReq
    /\ mcpApi = <<>>
    /\ mcpReply = NoMcpReply

McpParked ==
    /\ mcpEnv = [apiUrl |-> "", apiToken |-> ""]
    /\ mcpPc = "idle"
    /\ mcpReq = NoMcpReq
    /\ mcpApi = <<>>
    /\ mcpReply = NoMcpReply

\* server.setRequestHandler(ListToolsRequestSchema, ...)
McpListTools ==
    /\ mcpPc = "idle"
    /\ mcpReq' = [NoMcpReq EXCEPT !.method = "tools/list"]
    /\ mcpApi' = <<>>
    /\ mcpReply' = [kind |-> "tools", tools |-> ListedTools, text |-> <<>>, isError |-> FALSE]
    /\ mcpPc' = "done"
    /\ UNCHANGED <<mcpEnv, notMcp>>

\* server.setRequestHandler(CallToolRequestSchema, ...), up to the await of
\* apiRequest, or to the return of the default branch
McpCallTool(name, args) ==
    /\ mcpPc = "idle"
    /\ mcpReq' = [method |-> "tools/call", name |-> name, args |-> args]
    /\ mcpApi' = McpSwitch(mcpEnv, name, args)
    /\ IF McpSwitch(mcpEnv, name, args) = <<>>
       THEN /\ mcpReply' = [ kind |-> "result", tools |-> {},
                             text |-> <<"Unknown tool: ", name>>, isError |-> TRUE ]
            /\ mcpPc' = "done"
       ELSE /\ mcpReply' = NoMcpReply
            /\ mcpPc' = "calling"
    /\ UNCHANGED <<mcpEnv, notMcp>>

\* the API answers: the handler returns the JSON text, or its catch turns the
\* thrown Error into an isError reply
McpApiRespond(r) ==
    /\ mcpPc = "calling"
    /\ LET got == McpAfterFetch(r)
       IN  mcpReply' = IF got.kind = "json"
                       THEN [kind |-> "result", tools |-> {}, text |-> got.text,
                             isError |-> FALSE]
                       ELSE [kind |-> "result", tools |-> {},
                             text |-> <<"Error: ">> \o got.text, isError |-> TRUE]
    /\ mcpPc' = "done"
    /\ UNCHANGED <<mcpEnv, mcpReq, mcpApi, notMcp>>

\* fetch rejects: the catch reports it
McpApiNetworkError ==
    /\ mcpPc = "calling"
    /\ mcpReply' = [kind |-> "result", tools |-> {}, text |-> <<"Error: ", "fetch failed">>,
                    isError |-> TRUE]
    /\ mcpPc' = "done"
    /\ UNCHANGED <<mcpEnv, mcpReq, mcpApi, notMcp>>

\* the reply has been written to the transport; the server waits for the next request
McpReplied ==
    /\ mcpPc = "done"
    /\ mcpPc' = "idle"
    /\ mcpReq' = NoMcpReq
    /\ mcpApi' = <<>>
    /\ mcpReply' = NoMcpReply
    /\ UNCHANGED <<mcpEnv, notMcp>>

McpNext ==
    \/ McpListTools
    \/ \E name \in McpToolNames, args \in McpArgs : McpCallTool(name, args)
    \/ \E r \in Responses : McpApiRespond(r)
    \/ McpApiNetworkError
    \/ McpReplied

\* C4: each of the seven tools of the header is advertised by ListTools and
\* is dispatched by CallTool to an API request, never answered "Unknown tool".
C4_HeaderToolsServed ==
    /\ (mcpReply.kind = "tools" => HeaderTools \subseteq mcpReply.tools)
    /\ (mcpReq.method = "tools/call" /\ mcpReq.name \in HeaderTools =>
          /\ Len(mcpApi) = 1
          /\ ~(mcpReply.isError /\ mcpReply.text = <<"Unknown tool: ", mcpReq.name>>))

(***************************************************************************)
(* Anomaly detection and the alert configuration of the Anomalies page.    *)
(***************************************************************************)
\* the rolling average the detector is run against
AverageSpend == 4

\* the severity levels of Feature 3 (percent above the rolling 7-day average)
InfoPercent == 25
WarningPercent == 50
CriticalPercent == 100

\* const alertDefaults of the Anomalies page
alertDefaults ==
    [ criticalThreshold |-> 50,
      warningThreshold  |-> 25,
      emailEnabled      |-> TRUE,
      slackEnabled      |-> FALSE,
      autoAcknowledge   |-> FALSE ]

\* the detector of Feature 3: the severity of a day's spend against the
\* rolling average, "none" when the spend is not flagged
Severity(average, spend) ==
    IF spend * 100 >= average * (100 + CriticalPercent) THEN "critical"
    ELSE IF spend * 100 >= average * (100 + WarningPercent) THEN "warning"
    ELSE IF spend * 100 >= average * (100 + InfoPercent) THEN "info"
    ELSE "none"

\* what the threshold inputs can hold, and parseInt(e.target.value) || 0
ThresholdInputs == {"", "50", "100"}

parseIntOrZero(str) ==
    CASE str = "50" -> 50
      [] str = "100" -> 100
      [] OTHER -> 0

NoSaved == [saved |-> FALSE, value |-> alertDefaults]
NoAnomaly == [expected |-> 0, actual |-> 0, severity |-> "none"]

\* useState(() => { const saved = localStorage.getItem(...); return saved ? JSON.parse(saved) : alertDefaults })
InitialAlertConfig(storage) == IF storage.saved THEN storage.value ELSE alertDefaults

AnomInit ==
    /\ anomStorage = NoSaved
    /\ anomConfig = InitialAlertConfig(NoSaved)
    /\ anomShowConfig = FALSE
    /\ anomDetected = NoAnomaly

AnomParked == AnomInit

\* the Alert Config button
AnomOpenConfig ==
    /\ ~anomShowConfig
    /\ anomShowConfig' = TRUE
    /\ UNCHANGED <<anomStorage, anomConfig, anomDetected, notAnom>>

\* onChange of the Critical Threshold input
AnomSetCritical(str) ==
    /\ anomShowConfig
    /\ anomConfig' = [anomConfig EXCEPT !.criticalThreshold = parseIntOrZero(str)]
    /\ UNCHANGED <<anomStorage, anomShowConfig, anomDetected, notAnom>>

\* onChange of the Warning Threshold input
AnomSetWarning(str) ==
    /\ anomShowConfig
    /\ anomConfig' = [anomConfig EXCEPT !.warningThreshold = parseIntOrZero(str)]
    /\ UNCHANGED <<anomStorage, anomShowConfig, anomDetected, notAnom>>

\* onChange of one of the three checkboxes
AnomToggle(key) ==
    /\ anomShowConfig
    /\ anomConfig' = [anomConfig EXCEPT ![key] = ~anomConfig[key]]
    /\ UNCHANGED <<anomStorage, anomShowConfig, anomDetected, notAnom>>

\* saveAlertConfig
saveAlertConfig ==
    /\ anomShowConfig
    /\ anomStorage' = [saved |-> TRUE, value |-> anomConfig]
    /\ anomShowConfig' = FALSE
    /\ UNCHANGED <<anomConfig, anomDetected, notAnom>>

\* Cancel, or the modal's onClose: the edits stay in the page's state
AnomCancel ==
    /\ anomShowConfig
    /\ anomShowConfig' = FALSE
    /\ UNCHANGED <<anomStorage, anomConfig, anomDetected, notAnom>>

\* the page is loaded again: the state is initialised from localStorage
AnomReload ==
    /\ anomConfig' = InitialAlertConfig(anomStorage)
    /\ anomShowConfig' = FALSE
    /\ UNCHANGED <<anomStorage, anomDetected, notAnom>>

\* the detector compares a day's spend of a service with its rolling average
AnomDetect(average, spend) ==
    /\ anomDetected' = [expected |-> average, actual |-> spend,
                        severity |-> Severity(average, spend)]
    /\ UNCHANGED <<anomStorage, anomConfig, anomShowConfig, notAnom>>

AnomNext ==
    \/ AnomOpenConfig
    \/ \E str \in ThresholdInputs : AnomSetCritical(str)
    \/ \E str \in ThresholdInputs : AnomSetWarning(str)
    \/ \E key \in {"emailEnabled", "slackEnabled", "autoAcknowledge"} : AnomToggle(key)
    \/ saveAlertConfig
    \/ AnomCancel
    \/ AnomReload
    \/ \E spend \in AverageSpend .. (2 * AverageSpend) : AnomDetect(AverageSpend, spend)

\* C5: spend 25% or more above the rolling average is INFO, 50% or more
\* WARNING, 100% or more CRITICAL, nothing below 25% is flagged; and as long
\* as no configuration has been saved, the alert configuration in force has
\* the documented WARNING and CRITICAL percentages as its thresholds.
C5_SeverityLevels ==
    /\ LET a == anomDetected.expected
           s == anomDetected.actual
       IN  a > 0 =>
             /\ (anomDetected.severity = "critical" <=> 4 * s >= 8 * a)
             /\ (anomDetected.severity = "warning" <=> 4 * s >= 6 * a /\ 4 * s < 8 * a)
             /\ (anomDetected.severity = "info" <=> 4 * s >= 5 * a /\ 4 * s < 6 * a)
    /\ (~anomStorage.saved /\ ~anomShowConfig /\ anomConfig = InitialAlertConfig(anomStorage) =>
          /\ anomConfig.warningThreshold = WarningPercent
          /\ anomConfig.criticalThreshold = CriticalPercent)

(***************************************************************************)
(* AuthProvider (frontend/src/context/AuthContext.jsx), with the Login     *)
(* page and the routes of App.jsx that decide which handlers can run.      *)
(***************************************************************************)
MaxTokens == 2
MaxInflight == 3

AuthTokens == { "tok_" \o IntToStr(n) : n \in 1 .. MaxTokens }

\* the user object /api/v1/auth/me returns for a token
UserOf(tok) == "user_of_" \o tok

\* isAuthenticated: !!user
isAuthenticated == authUser # ""

\* AppRoutes: the loading screen, else Login when not authenticated, else the routes
Screen ==
    IF authLoading THEN "loading"
    ELSE IF ~isAuthenticated THEN "login"
    ELSE "app"

RemoveAt(q, i) == SubSeq(q, 1, i - 1) \o SubSeq(q, i + 1, Len(q))

\* the effect on [token]: a changed, non-null token starts a validation request
MeAfterSetToken(old, new, me) == IF new # old /\ new # "" THEN Append(me, new) ELSE me

\* the effect on [token]: a token changed to null ends loading
LoadingAfterSetToken(old, new, loading) == IF new # old /\ new = "" THEN FALSE ELSE loading

\* a Login page that unmounts leaves its requests behind
Orphaned(pending) == [i \in 1 .. Len(pending) |-> [pending[i] EXCEPT !.current = FALSE]]

\* the first render and its effect, given what localStorage holds
AuthMounted(stored) ==
    /\ authStorage = stored
    /\ authToken = stored
    /\ authUser = ""
    /\ authLoading = (stored # "")
    /\ authMe = IF stored # "" THEN <<stored>> ELSE <<>>
    /\ authPending = <<>>
    /\ authLoginBusy = FALSE

AuthInit == \E stored \in AuthTokens \cup {""} : AuthMounted(stored)

AuthParked ==
    /\ authStorage = "tok_1"
    /\ authToken = "tok_1"
    /\ authUser = UserOf("tok_1")
    /\ authLoading = FALSE
    /\ authMe = <<>>
    /\ authPending = <<>>
    /\ authLoginBusy = FALSE

\* Login.handleSubmit up to the first await of login() or signup()
AuthSubmit(kind) ==
    /\ Screen = "login"
    /\ ~authLoginBusy
    /\ Len(authMe) + Len(authPending) < MaxInflight
    /\ authLoginBusy' = TRUE
    /\ authPending' = Append(authPending, [kind |-> kind, current |-> TRUE])
    /\ UNCHANGED <<authStorage, authToken, authUser, authLoading, authMe, notAuth>>

\* signup(): the answer to POST /api/v1/auth/signup; on success it goes on to login()
AuthSignupRespond(i, ok) ==
    /\ i \in 1 .. Len(authPending)
    /\ authPending[i].kind = "signup"
    /\ IF ok
       THEN /\ authPending' = [authPending EXCEPT ![i].kind = "login"]
            /\ UNCHANGED authLoginBusy
       ELSE /\ authPending' = RemoveAt(authPending, i)
            /\ authLoginBusy' = IF authPending[i].current THEN FALSE ELSE authLoginBusy
    /\ UNCHANGED <<authStorage, authToken, authUser, authLoading, authMe, notAuth>>

\* login(): the answer to POST /api/v1/auth/login; on success the token is
\* stored and set, and the effect on [token] runs
login(i, ok, tok) ==
    /\ i \in 1 .. Len(authPending)
    /\ authPending[i].kind = "login"
    /\ authPending' = RemoveAt(authPending, i)
    /\ authLoginBusy' = IF authPending[i].current THEN FALSE ELSE authLoginBusy
    /\ IF ok
       THEN /\ authStorage' = tok
            /\ authToken' = tok
            /\ authMe' = MeAfterSetToken(authToken, tok, authMe)
            /\ authLoading' = LoadingAfterSetToken(authToken, tok, authLoading)
       ELSE UNCHANGED <<authStorage, authToken, authMe, authLoading>>
    /\ UNCHANGED <<authUser, notAuth>>

\* a chain whose catch clears the state but leaves localStorage alone
AuthMeRespondKeepsStorage(i, ok) ==
    /\ i \in 1 .. Len(authMe)
    /\ authMe' = RemoveAt(authMe, i)
    /\ IF ok
       THEN /\ authUser' = UserOf(authMe[i])
            /\ UNCHANGED <<authStorage, authToken>>
       ELSE /\ authToken' = ""
            /\ authUser' = ""
            /\ UNCHANGED authStorage
    /\ authLoading' = FALSE
    /\ IF Screen = "login" /\ ok
       THEN /\ authPending' = Orphaned(authPending)
            /\ authLoginBusy' = FALSE
       ELSE UNCHANGED <<authPending, authLoginBusy>>
    /\ UNCHANGED notAuth

\* the .then/.catch/.finally chain of the effect, run when a validation
\* request is answered
AuthMeRespond(i, ok) ==
    /\ i \in 1 .. Len(authMe)
    /\ authMe' = RemoveAt(authMe, i)
    /\ IF ok
       THEN /\ authUser' = UserOf(authMe[i])
            /\ UNCHANGED <<authStorage, authToken>>
       ELSE /\ authStorage' = ""
            /\ authToken' = ""
            /\ authUser' = ""
    /\ authLoading' = FALSE
    /\ IF Screen = "login" /\ ok
       THEN /\ authPending' = Orphaned(authPending)
            /\ authLoginBusy' = FALSE
       ELSE UNCHANGED <<authPending, authLoginBusy>>
    /\ UNCHANGED notAuth

\* logout(), from the Layout's button
logout ==
    /\ Screen = "app"
    /\ authStorage' = ""
    /\ authToken' = ""
    /\ authUser' = ""
    /\ authLoading' = LoadingAfterSetToken(authToken, "", authLoading)
    /\ UNCHANGED <<authMe, authPending, authLoginBusy, notAuth>>

\* the page is loaded again: what is in flight is gone, localStorage stays
AuthReload ==
    /\ authToken' = authStorage
    /\ authUser' = ""
    /\ authLoading' = (authStorage # "")
    /\ authMe' = IF authStorage # "" THEN <<authStorage>> ELSE <<>>
    /\ authPending' = <<>>
    /\ authLoginBusy' = FALSE
    /\ UNCHANGED <<authStorage, notAuth>>

AuthNext ==
    \/ \E kind \in {"login", "signup"} : AuthSubmit(kind)
    \/ \E i \in 1 .. MaxInflight, ok \in BOOLEAN : AuthSignupRespond(i, ok)
    \/ \E i \in 1 .. MaxInflight, ok \in BOOLEAN, tok \in AuthTokens : login(i, ok, tok)
    \/ \E i \in 1 .. MaxInflight, ok \in BOOLEAN : AuthMeRespond(i, ok)
    \/ logout
    \/ AuthReload

\* C10: whenever the provider reports isAuthenticated, a token is held in
\* state and the same token is in localStorage under cloudpulse_token.
C10_AuthenticatedHoldsToken ==
    isAuthenticated => (authToken # "" /\ authStorage = authToken)

\* C11: a token read from localStorage is validated by fetching the current
\* user. While that validation is pending the loading screen is up, the one
\* request in flight carries the stored token and nobody is authenticated;
\* the provider becomes authenticated only in the step in which a
\* /api/v1/auth/me request is answered with success, and with the user of the
\* token that request carried; loading ends either authenticated for the
\* stored token or with everything cleared; and a failed validation removes
\* the token from localStorage and from state, clears the user, ends loading
\* and leaves the login page on screen.
C11_StoredTokenIsValidated ==
    [][ /\ authLoading =>
              /\ authMe = <<authStorage>>
              /\ authToken = authStorage
              /\ ~isAuthenticated
        /\ (authUser' # authUser /\ isAuthenticated') =>
              \E i \in 1 .. Len(authMe) :
                  /\ authMe' = RemoveAt(authMe, i)
                  /\ authUser' = UserOf(authMe[i])
        /\ (authLoading /\ ~authLoading') =>
              \/ /\ authStorage # ""
                 /\ authStorage' = authStorage
                 /\ authToken' = authStorage
                 /\ authUser' = UserOf(authStorage)
                 /\ Screen' = "app"
              \/ /\ authStorage' = ""
                 /\ authToken' = ""
                 /\ authUser' = ""
                 /\ Screen' = "login"
        /\ \A i \in 1 .. Len(authMe) :
              AuthMeRespond(i, FALSE) =>
                  /\ authStorage' = ""
                  /\ authToken' = ""
                  /\ authUser' = ""
                  /\ ~authLoading'
                  /\ Screen' = "login"
      ]_vars

\* the stored token was validated and the routes are on screen
C11_Witness ==
    /\ Screen = "app"
    /\ authStorage # ""
    /\ authToken = authStorage
    /\ authUser = UserOf(authStorage)
    /\ authMe = <<>>
    /\ authPending = <<>>

(***************************************************************************)
(* AWS account connection flow of the Settings page                        *)
(* (handleDownloadTemplate / handleSubmitRoleArn) and api.connectAwsAccount. *)
(***************************************************************************)
MaxArnLen == 2
MaxExternalIds == 2
MaxConnects == 2

ArnChars == {" ", "a"}

RECURSIVE SeqsUpTo(_, _)
SeqsUpTo(S, n) ==
    IF n = 0 THEN {<<>>}
    ELSE SeqsUpTo(S, n - 1) \cup { Append(q, c) : q \in SeqsUpTo(S, n - 1), c \in S }

RoleArnInputs == SeqsUpTo(ArnChars, MaxArnLen)

\* crypto.randomUUID()
ExternalIds == { "eid_" \o IntToStr(n) : n \in 1 .. MaxExternalIds }

\* String.prototype.trim
RECURSIVE TrimStart(_)
TrimStart(cs) == IF cs # <<>> /\ Head(cs) = " " THEN TrimStart(Tail(cs)) ELSE cs

RECURSIVE TrimEnd(_)
TrimEnd(cs) ==
    IF cs # <<>> /\ cs[Len(cs)] = " " THEN TrimEnd(SubSeq(cs, 1, Len(cs) - 1)) ELSE cs

Trim(cs) == TrimEnd(TrimStart(cs))

\* request() of the API client: the Authorization header it adds when
\* localStorage holds cloudpulse_token
ApiAuthHeader == IF authStorage # "" THEN "Bearer " \o authStorage ELSE ""

\* request(endpoint, options) of the API client, up to its await fetch(...)
ApiRequest(method, endpoint, params) ==
    [ method |-> method, url |-> "/api/v1" \o endpoint, params |-> params,
      auth |-> ApiAuthHeader, hasBody |-> FALSE ]

\* api.connectAwsAccount(roleArn, externalId, accountName): account_name is
\* added only when an account name is passed
connectAwsAccount(roleArn, externalId, accountName) ==
    ApiRequest("POST", "/setup/connect",
               << <<"role_arn", roleArn>>, <<"external_id", externalId>> >>
               \o (IF accountName # "" THEN << <<"account_name", accountName>> >> ELSE <<>>))

\* a guard that forgets the external ID
SubmitGuardArnOnly(roleArn, externalId) == Trim(roleArn) # <<>>

\* the negation of: if (!roleArn.trim() || !externalId) return;
SubmitGuard(roleArn, externalId) == Trim(roleArn) # <<>> /\ externalId # ""

AwsInit ==
    /\ awsRoleArn = <<>>
    /\ awsExternalId = ""
    /\ awsGenerated = {}
    /\ awsConnecting = FALSE
    /\ awsError = ""
    /\ awsInflight = 0
    /\ awsWire = <<>>

AwsParked == AwsInit

\* the user edits the Role ARN field bound to the roleArn state
AwsTypeRoleArn(cs) ==
    /\ awsRoleArn' = cs
    /\ awsWire' = <<>>
    /\ UNCHANGED <<awsExternalId, awsGenerated, awsConnecting, awsError, awsInflight, notAws>>

\* handleDownloadTemplate: a new external ID, and the static template opened
handleDownloadTemplate(eid) ==
    /\ awsExternalId' = eid
    /\ awsGenerated' = awsGenerated \cup {eid}
    /\ awsWire' = << [ method |-> "GET", url |-> "/static/cloudpulse-iam-role.yaml",
                       params |-> <<>>, auth |-> "", hasBody |-> FALSE ] >>
    /\ UNCHANGED <<awsRoleArn, awsConnecting, awsError, awsInflight, notAws>>

\* handleSubmitRoleArn up to its await: it returns at once unless the guard holds
handleSubmitRoleArn ==
    /\ awsInflight < MaxConnects
    /\ IF SubmitGuard(awsRoleArn, awsExternalId)
       THEN /\ awsConnecting' = TRUE
            /\ awsError' = ""
            /\ awsWire' = << connectAwsAccount(awsRoleArn, awsExternalId, "") >>
            /\ awsInflight' = awsInflight + 1
       ELSE /\ awsWire' = <<>>
            /\ UNCHANGED <<awsConnecting, awsError, awsInflight>>
    /\ UNCHANGED <<awsRoleArn, awsExternalId, awsGenerated, notAws>>

\* handleSubmitRoleArn after its await: on success the field is cleared and
\* the accounts are fetched again, on failure the error is shown
AwsConnectRespond(ok) ==
    /\ awsInflight > 0
    /\ awsInflight' = awsInflight - 1
    /\ awsConnecting' = FALSE
    /\ IF ok
       THEN /\ awsRoleArn' = <<>>
            /\ awsWire' = << ApiRequest("GET", "/accounts", <<>>) >>
            /\ UNCHANGED awsError
       ELSE /\ awsError' = "Failed to connect account."
            /\ awsWire' = <<>>
            /\ UNCHANGED awsRoleArn
    /\ UNCHANGED <<awsExternalId, awsGenerated, notAws>>

AwsNext ==
    \/ \E cs \in RoleArnInputs : AwsTypeRoleArn(cs)
    \/ \E eid \in ExternalIds : handleDownloadTemplate(eid)
    \/ handleSubmitRoleArn
    \/ \E ok \in BOOLEAN : AwsConnectRespond(ok)

\* what would be an AWS credential in a request
CredentialKeys == {"access_key_id", "secret_access_key", "session_token", "password"}

DocResources ==
    { "cloudpulse_workspace", "cloudpulse_cost_report", "cloudpulse_folder",
      "cloudpulse_saved_filter", "cloudpulse_dashboard", "cloudpulse_segment",
      "cloudpulse_team", "cloudpulse_virtual_tag" }

DocDataSources == { "cloudpulse_workspaces", "cloudpulse_cost_reports", "cloudpulse_folders" }

\* the default the host attribute's description names
DocDefaultHost == "https://api.cloudpulse.dev"

\* CloudPulseProvider.Resources: the type names of the constructors it returns
ProviderResources == <<>>

\* CloudPulseProvider.DataSources: the type names of the constructors it returns
ProviderDataSources == <<>>

\* CloudPulseProvider.Configure: it reads the configuration into a model and
\* returns; no client is built and nothing is set on the response
NoTfClient == [built |-> FALSE, apiToken |-> "", host |-> ""]

Configure(config, env) == NoTfClient

TfHosts == {"", "https://cp.internal"}
TfConfigs == { [api_token |-> t, host |-> h] : t \in {"", "cpls_cfg"}, h \in TfHosts }
TfTypes == DocResources \cup DocDataSources \cup {"cloudpulse_budget"}

NoTfSchema == [served |-> FALSE, resources |-> {}, dataSources |-> {}]
NoTfLookup == [kind |-> "", type |-> "", found |-> FALSE]

TfInit ==
    /\ tfEnv = ""
    /\ tfConfig = [api_token |-> "", host |-> ""]
    /\ tfPc = "new"
    /\ tfClient = NoTfClient
    /\ tfSchema = NoTfSchema
    /\ tfLookup = NoTfLookup

TfParked == TfInit

\* the environment the provider process is started in
TfSetEnv(v) ==
    /\ tfPc = "new"
    /\ tfEnv' = v
    /\ UNCHANGED <<tfConfig, tfPc, tfClient, tfSchema, tfLookup, notTf>>

\* the provider "cloudpulse" { ... } block of the configuration
TfWriteConfig(config) ==
    /\ tfPc = "new"
    /\ tfConfig' = config
    /\ UNCHANGED <<tfEnv, tfPc, tfClient, tfSchema, tfLookup, notTf>>

\* Terraform asks the provider for its resources and data sources
TfGetSchema ==
    /\ tfSchema' = [ served |-> TRUE,
                     resources |-> { ProviderResources[i] : i \in 1 .. Len(ProviderResources) },
                     dataSources |->
                        { ProviderDataSources[i] : i \in 1 .. Len(ProviderDataSources) } ]
    /\ UNCHANGED <<tfEnv, tfConfig, tfPc, tfClient, tfLookup, notTf>>

\* Terraform configures the provider
TfConfigure ==
    /\ tfPc = "new"
    /\ tfClient' = Configure(tfConfig, tfEnv)
    /\ tfPc' = "configured"
    /\ UNCHANGED <<tfEnv, tfConfig, tfSchema, tfLookup, notTf>>

\* a configuration uses a resource or data source of some type: Terraform
\* looks it up among the types the provider reported
TfUse(kind, type) ==
    /\ tfSchema.served
    /\ tfLookup' = [ kind |-> kind, type |-> type,
                     found |-> IF kind = "resource" THEN type \in tfSchema.resources
                               ELSE type \in tfSchema.dataSources ]
    /\ UNCHANGED <<tfEnv, tfConfig, tfPc, tfClient, tfSchema, notTf>>

\* the provider process is started afresh
TfRestart ==
    /\ tfPc = "configured"
    /\ tfPc' = "new"
    /\ tfClient' = NoTfClient
    /\ tfSchema' = NoTfSchema
    /\ tfLookup' = NoTfLookup
    /\ UNCHANGED <<tfEnv, tfConfig, notTf>>

TfNext ==
    \/ \E v \in {"", "cpls_env"} : TfSetEnv(v)
    \/ \E config \in TfConfigs : TfWriteConfig(config)
    \/ TfGetSchema
    \/ TfConfigure
    \/ \E kind \in {"resource", "data"}, type \in TfTypes : TfUse(kind, type)
    \/ TfRestart

\* C7: the provider registers every resource type and every data source its
\* package documentation names, so a configuration that uses one finds it.
C7_RegistersDocumentedTypes ==
    /\ (tfSchema.served =>
          /\ DocResources \subseteq tfSchema.resources
          /\ DocDataSources \subseteq tfSchema.dataSources)
    /\ (tfLookup.kind = "resource" /\ tfLookup.type \in DocResources => tfLookup.found)
    /\ (tfLookup.kind = "data" /\ tfLookup.type \in DocDataSources => tfLookup.found)

\* C8: once configured, the provider works with the api_token of the provider
\* block, or with CLOUDPULSE_API_TOKEN when the block sets none, and with the
\* host of the block, or with https://api.cloudpulse.dev when it sets none.
C8_ConfigureFallsBack ==
    tfPc = "configured" =>
        /\ tfClient.built
        /\ tfClient.apiToken = (IF tfConfig.api_token # "" THEN tfConfig.api_token ELSE tfEnv)
        /\ tfClient.host = (IF tfConfig.host # "" THEN tfConfig.host ELSE DocDefaultHost)

(***************************************************************************)
(* API Keys section of the Settings page (loadApiTokens, handleCreateToken, *)
(* handleRevokeToken and the section's buttons), with the API's answers.   *)
(* A token is a sequence of pieces whose first piece stands for its first  *)
(* twelve characters.  The scopes chosen for a token only travel to the    *)
(* API and back to the badge of its row, and are left out.                 *)
(***************************************************************************)
MaxIssued == 2
MaxKeyInflight == 2

KeySections == {"profile", "api-keys"}

KeyNames == {<<>>, <<" ">>, <<"c", "i">>}

\* createdToken: null
NoCreatedToken == <<>>

\* the token field of the n-th create response (APITokenCreated)
TokenValue(n) == <<"cpls_token_" \o IntToStr(n), "_secret_" \o IntToStr(n)>>

\* the list entry of the n-th token (APIToken): no token field
TokenEntry(n, name) == [token_prefix |-> TokenValue(n)[1], name |-> name]

\* createdToken.slice(0, 12)
Slice12(tok) == SubSeq(tok, 1, 1)

\* the banner's <code> element, with the mask shown whatever tokenVisible says
KeyBannerTextUnmasked(created, visible) == Join(created)

\* the banner's <code> element
KeyBannerText(created, visible) ==
    IF visible THEN Join(created) ELSE Join(Slice12(created) \o <<"********">>)

\* the texts of a row of the token list
KeyRowTexts(t) == {Join(t.name), Join(<<t.token_prefix, "***">>)}

\* what the API Keys card renders of tokens; other sections render none
KeyScreenTexts ==
    IF keySection # "api-keys" THEN {}
    ELSE (IF keyCreated # NoCreatedToken
          THEN {KeyBannerText(keyCreated, keyVisible)} ELSE {})
         \cup (IF keyLoading THEN {}
               ELSE UNION { KeyRowTexts(keyTokens[i]) : i \in 1 .. Len(keyTokens) })

\* api.getAPITokens / createAPIToken / revokeAPIToken, as sent
KeyListRequest == [kind |-> "list", name |-> <<>>, prefix |-> ""]
KeyCreateRequest(name) == [kind |-> "create", name |-> name, prefix |-> ""]
KeyRevokeRequest(prefix) == [kind |-> "revoke", name |-> <<>>, prefix |-> prefix]

\* the state after the first render: the profile section, nothing loaded
KeyMounted ==
    /\ keySection = "profile"
    /\ keyTokens = <<>>
    /\ keyShowCreate = FALSE
    /\ keyName = <<>>
    /\ keyCreated = NoCreatedToken
    /\ keyVisible = FALSE
    /\ keyLoading = FALSE
    /\ keyInflight = <<>>

KeyInit ==
    /\ KeyMounted
    /\ keyServer = <<>>
    /\ keyIssued = 0

KeyParked == KeyInit

\* a section button: setActiveSection(id); the effect on [activeSection]
\* calls loadApiTokens when the new section is api-keys
KeySetSection(id) ==
    /\ id # keySection
    /\ keySection' = id
    /\ IF id = "api-keys"
       THEN /\ Len(keyInflight) < MaxKeyInflight
            /\ keyLoading' = TRUE
            /\ keyInflight' = Append(keyInflight, KeyListRequest)
       ELSE UNCHANGED <<keyLoading, keyInflight>>
    /\ UNCHANGED <<keyTokens, keyShowCreate, keyName, keyCreated, keyVisible,
                   keyServer, keyIssued, notKey>>

\* the Create Token button: setShowCreateToken(true); setCreatedToken(null)
KeyOpenCreate ==
    /\ keySection = "api-keys"
    /\ keyShowCreate' = TRUE
    /\ keyCreated' = NoCreatedToken
    /\ UNCHANGED <<keySection, keyTokens, keyName, keyVisible, keyLoading,
                   keyInflight, keyServer, keyIssued, notKey>>

\* the Name input of the create form
KeyTypeName(cs) ==
    /\ keySection = "api-keys"
    /\ keyShowCreate
    /\ keyName' = cs
    /\ UNCHANGED <<keySection, keyTokens, keyShowCreate, keyCreated, keyVisible,
                   keyLoading, keyInflight, keyServer, keyIssued, notKey>>

\* the Cancel button of the create form
KeyCancelCreate ==
    /\ keySection = "api-keys"
    /\ keyShowCreate
    /\ keyShowCreate' = FALSE
    /\ UNCHANGED <<keySection, keyTokens, keyName, keyCreated, keyVisible,
                   keyLoading, keyInflight, keyServer, keyIssued, notKey>>

\* the Reveal / Hide button of the banner
KeyToggleVisible ==
    /\ keySection = "api-keys"
    /\ keyCreated # NoCreatedToken
    /\ keyVisible' = ~keyVisible
    /\ UNCHANGED <<keySection, keyTokens, keyShowCreate, keyName, keyCreated,
                   keyLoading, keyInflight, keyServer, keyIssued, notKey>>

\* handleCreateToken up to its await (the Create button, or Enter in the
\* Name input)
handleCreateToken ==
    /\ keySection = "api-keys"
    /\ keyShowCreate
    /\ Trim(keyName) # <<>>
    /\ Len(keyInflight) < MaxKeyInflight
    /\ keyInflight' = Append(keyInflight, KeyCreateRequest(keyName))
    /\ UNCHANGED <<keySection, keyTokens, keyShowCreate, keyName, keyCreated,
                   keyVisible, keyLoading, keyServer, keyIssued, notKey>>

\* handleCreateToken after its await: the API issues a token and answers
\* with it, or the request fails
KeyCreateRespond(i, ok) ==
    /\ i \in 1 .. Len(keyInflight)
    /\ keyInflight[i].kind = "create"
    /\ IF ok
       THEN /\ keyIssued < MaxIssued
            /\ keyIssued' = keyIssued + 1
            /\ keyServer' = Append(keyServer, TokenEntry(keyIssued + 1, keyInflight[i].name))
            /\ keyCreated' = TokenValue(keyIssued + 1)
            /\ keyName' = <<>>
            /\ keyShowCreate' = FALSE
            /\ keyLoading' = TRUE
            /\ keyInflight' = Append(RemoveAt(keyInflight, i), KeyListRequest)
       ELSE /\ keyInflight' = RemoveAt(keyInflight, i)
            /\ UNCHANGED <<keyIssued, keyServer, keyCreated, keyName, keyShowCreate, keyLoading>>
    /\ UNCHANGED <<keySection, keyTokens, keyVisible, notKey>>

\* handleRevokeToken up to its await: the row's button, then confirm()
handleRevokeToken(i) ==
    /\ keySection = "api-keys"
    /\ ~keyLoading
    /\ i \in 1 .. Len(keyTokens)
    /\ Len(keyInflight) < MaxKeyInflight
    /\ keyInflight' = Append(keyInflight, KeyRevokeRequest(keyTokens[i].token_prefix))
    /\ UNCHANGED <<keySection, keyTokens, keyShowCreate, keyName, keyCreated,
                   keyVisible, keyLoading, keyServer, keyIssued, notKey>>

\* handleRevokeToken after its await
KeyRevokeRespond(i, ok) ==
    /\ i \in 1 .. Len(keyInflight)
    /\ keyInflight[i].kind = "revoke"
    /\ IF ok
       THEN /\ keyServer' = SelectSeq(keyServer,
                   LAMBDA t : t.token_prefix # keyInflight[i].prefix)
            /\ keyLoading' = TRUE
            /\ keyInflight' = Append(RemoveAt(keyInflight, i), KeyListRequest)
       ELSE /\ keyInflight' = RemoveAt(keyInflight, i)
            /\ UNCHANGED <<keyServer, keyLoading>>
    /\ UNCHANGED <<keySection, keyTokens, keyShowCreate, keyName, keyCreated,
                   keyVisible, keyIssued, notKey>>

\* loadApiTokens after its await
KeyListRespond(i, ok) ==
    /\ i \in 1 .. Len(keyInflight)
    /\ keyInflight[i].kind = "list"
    /\ keyInflight' = RemoveAt(keyInflight, i)
    /\ keyTokens' = IF ok THEN keyServer ELSE keyTokens
    /\ keyLoading' = FALSE
    /\ UNCHANGED <<keySection, keyShowCreate, keyName, keyCreated, keyVisible,
                   keyServer, keyIssued, notKey>>

\* the user leaves the Settings page and comes back: the page's state is new
\* and the answers to the old page's requests are dropped
KeyRemount ==
    /\ keySection' = "profile"
    /\ keyTokens' = <<>>
    /\ keyShowCreate' = FALSE
    /\ keyName' = <<>>
    /\ keyCreated' = NoCreatedToken
    /\ keyVisible' = FALSE
    /\ keyLoading' = FALSE
    /\ keyInflight' = <<>>
    /\ UNCHANGED <<keyServer, keyIssued, notKey>>

KeyNext ==
    \/ \E id \in KeySections : KeySetSection(id)
    \/ KeyOpenCreate
    \/ \E cs \in KeyNames : KeyTypeName(cs)
    \/ KeyCancelCreate
    \/ KeyToggleVisible
    \/ handleCreateToken
    \/ \E i \in 1 .. MaxKeyInflight, ok \in BOOLEAN : KeyCreateRespond(i, ok)
    \/ \E i \in 1 .. MaxIssued : handleRevokeToken(i)
    \/ \E i \in 1 .. MaxKeyInflight, ok \in BOOLEAN : KeyRevokeRespond(i, ok)
    \/ \E i \in 1 .. MaxKeyInflight, ok \in BOOLEAN : KeyListRespond(i, ok)
    \/ KeyRemount

\* C12: API tokens are shown only once at creation. The full value of an
\* issued token is on screen only as the text of the revealed banner of the
\* API Keys section; the banner is fed only by the create response that
\* carries a token just issued; and once the banner no longer holds a value,
\* that value is never held or displayed again, whatever the user lists,
\* switches, opens or revokes.
C12_TokenShownOnce ==
    /\ [](\A n \in 1 .. MaxIssued + 1 :
            Join(TokenValue(n)) \in KeyScreenTexts =>
                /\ keySection = "api-keys"
                /\ keyCreated = TokenValue(n)
                /\ keyVisible)
    /\ [][ (keyCreated' # keyCreated /\ keyCreated' # NoCreatedToken) =>
              /\ \E i \in 1 .. Len(keyInflight) : keyInflight[i].kind = "create"
              /\ keyIssued' = keyIssued + 1
              /\ keyCreated' = TokenValue(keyIssued') ]_vars
    /\ \A n \in 1 .. MaxIssued + 1 :
          [](keyCreated = TokenValue(n) =>
               [](keyCreated # TokenValue(n) =>
                    [](/\ keyCreated # TokenValue(n)
                       /\ Join(TokenValue(n)) \notin KeyScreenTexts)))

\* a token was created and revealed, its banner was cleared by the Create
\* Token button, and the list shows the token by its prefix
C12_Witness ==
    /\ keySection = "api-keys"
    /\ keyIssued >= 1
    /\ keyCreated = NoCreatedToken
    /\ keyVisible
    /\ keyShowCreate
    /\ ~keyLoading
    /\ keyTokens # <<>>
    /\ keyInflight = <<>>

(***************************************************************************)
(* Budgets page (handleDelete, handleRefresh) and Reports page             *)
(* (handleCreate).  A handler that awaits the API keeps the state it       *)
(* closed over when it was called: the request in flight carries it.       *)
(***************************************************************************)
MaxBudgets == 3
MaxReports == 2
MaxListInflight == 2

\* the budgets of the account when the page has loaded
LoadedBudgets == [i \in 1 .. MaxBudgets |-> i]

\* budgets.filter((b) => b.id !== budgetId)
Filter(budgets, budgetId) == SelectSeq(budgets, LAMBDA b : b # budgetId)

\* [report, ...reports]
Prepend(report, reports) == <<report>> \o reports

BudDeleteCall(budgetId, budgets, selected) ==
    [kind |-> "delete", id |-> budgetId, budgets |-> budgets, selected |-> selected]

BudRefreshCall == [kind |-> "refresh", id |-> 0, budgets |-> <<>>, selected |-> 0]

\* both pages after their first load: each lists what the API holds
ListInit ==
    /\ budServer = Range(LoadedBudgets)
    /\ budBudgets = LoadedBudgets
    /\ budSelected = 0
    /\ budRefreshing = FALSE
    /\ budInflight = <<>>
    /\ repServer = {}
    /\ repReports = <<>>
    /\ repCreating = FALSE
    /\ repInflight = <<>>

ListParked == ListInit

\* a budget card is clicked: the performance modal opens over the page
BudSelect(budgetId) ==
    /\ budSelected = 0
    /\ budgetId \in Range(budBudgets)
    /\ budSelected' = budgetId
    /\ UNCHANGED <<budServer, budBudgets, budRefreshing, budInflight,
                   repServer, repReports, repCreating, repInflight, notList>>

\* the modal's onClose
BudCloseModal ==
    /\ budSelected # 0
    /\ budSelected' = 0
    /\ UNCHANGED <<budServer, budBudgets, budRefreshing, budInflight,
                   repServer, repReports, repCreating, repInflight, notList>>

\* handleDelete up to its await: the trash button of a listed budget
handleDelete(budgetId) ==
    /\ budSelected = 0
    /\ budgetId \in Range(budBudgets)
    /\ Len(budInflight) < MaxListInflight
    /\ budInflight' = Append(budInflight, BudDeleteCall(budgetId, budBudgets, budSelected))
    /\ UNCHANGED <<budServer, budBudgets, budSelected, budRefreshing,
                   repServer, repReports, repCreating, repInflight, notList>>

\* handleDelete after its await
BudDeleteRespond(i, ok) ==
    /\ i \in 1 .. Len(budInflight)
    /\ budInflight[i].kind = "delete"
    /\ budInflight' = RemoveAt(budInflight, i)
    /\ IF ok
       THEN /\ budServer' = budServer \ {budInflight[i].id}
            /\ budBudgets' = Filter(budInflight[i].budgets, budInflight[i].id)
            /\ budSelected' = IF budInflight[i].selected = budInflight[i].id
                              THEN 0 ELSE budSelected
       ELSE UNCHANGED <<budServer, budBudgets, budSelected>>
    /\ UNCHANGED <<budRefreshing, repServer, repReports, repCreating, repInflight, notList>>

\* handleRefresh up to its await: the Refresh button
handleRefresh ==
    /\ budSelected = 0
    /\ ~budRefreshing
    /\ Len(budInflight) < MaxListInflight
    /\ budRefreshing' = TRUE
    /\ budInflight' = Append(budInflight, BudRefreshCall)
    /\ UNCHANGED <<budServer, budBudgets, budSelected,
                   repServer, repReports, repCreating, repInflight, notList>>

\* handleRefresh after its await: the API answers with the budgets it holds
BudRefreshRespond(i, ok) ==
    /\ i \in 1 .. Len(budInflight)
    /\ budInflight[i].kind = "refresh"
    /\ budInflight' = RemoveAt(budInflight, i)
    /\ budBudgets' = IF ok THEN SelectSeq(LoadedBudgets, LAMBDA b : b \in budServer)
                     ELSE budBudgets
    /\ budRefreshing' = FALSE
    /\ UNCHANGED <<budServer, budSelected, repServer, repReports, repCreating,
                   repInflight, notList>>

\* Reports.handleCreate up to its await: the New Report button, disabled
\* while creating, or the Create Report button of the empty list
RepHandleCreate ==
    /\ ~repCreating \/ repReports = <<>>
    /\ Len(repInflight) < MaxListInflight
    /\ repCreating' = TRUE
    /\ repInflight' = Append(repInflight, [reports |-> repReports])
    /\ UNCHANGED <<budServer, budBudgets, budSelected, budRefreshing, budInflight,
                   repServer, repReports, notList>>

\* Reports.handleCreate after its await
RepCreateRespond(i, ok) ==
    /\ i \in 1 .. Len(repInflight)
    /\ repInflight' = RemoveAt(repInflight, i)
    /\ IF ok
       THEN /\ Cardinality(repServer) < MaxReports
            /\ repServer' = repServer \cup {Cardinality(repServer) + 1}
            /\ repReports' = Prepend(Cardinality(repServer) + 1, repInflight[i].reports)
       ELSE UNCHANGED <<repServer, repReports>>
    /\ repCreating' = FALSE
    /\ UNCHANGED <<budServer, budBudgets, budSelected, budRefreshing, budInflight, notList>>

\* either page is left and opened again: it loads what the API holds, and
\* the answers to the old page's requests are dropped
ListReload ==
    /\ budBudgets' = SelectSeq(LoadedBudgets, LAMBDA b : b \in budServer)
    /\ budSelected' = 0
    /\ budRefreshing' = FALSE
    /\ budInflight' = <<>>
    /\ repReports' = [i \in 1 .. Cardinality(repServer) |-> Cardinality(repServer) + 1 - i]
    /\ repCreating' = FALSE
    /\ repInflight' = <<>>
    /\ UNCHANGED <<budServer, repServer, notList>>

ListNext ==
    \/ \E b \in 1 .. MaxBudgets : BudSelect(b)
    \/ BudCloseModal
    \/ \E b \in 1 .. MaxBudgets : handleDelete(b)
    \/ \E i \in 1 .. MaxListInflight, ok \in BOOLEAN : BudDeleteRespond(i, ok)
    \/ handleRefresh
    \/ \E i \in 1 .. MaxListInflight, ok \in BOOLEAN : BudRefreshRespond(i, ok)
    \/ RepHandleCreate
    \/ \E i \in 1 .. MaxListInflight, ok \in BOOLEAN : RepCreateRespond(i, ok)
    \/ ListReload

\* C13: overlapping list mutations are all reflected. Once no request of
\* the Budgets page is waiting for the API, no budget the API has deleted is
\* still listed; and once no request of the Reports page is waiting, every
\* report the API has created is listed.
C13_OverlappingMutationsReflected ==
    /\ budInflight = <<>> => Range(budBudgets) \subseteq budServer
    /\ repInflight = <<>> => repServer \subseteq Range(repReports)

(***************************************************************************)
(* Specifications.                                                         *)
(***************************************************************************)
SdkParked ==
    /\ sdkOpts = [lang |-> "js", apiToken |-> "cpls_a", hasBaseUrl |-> FALSE, baseUrl |-> <<>>]
    /\ sdkClient = Construct(sdkOpts)
    /\ sdkCall = NoCall
    /\ sdkPc = "idle"
    /\ sdkWire = <<>>
    /\ sdkResp = [status |-> 0, body |-> [json |-> FALSE, detail |-> ""]]
    /\ sdkResult = NoResult

InitSdk == SdkInit /\ McpParked /\ AnomParked /\ AuthParked /\ AwsParked /\ TfParked /\ KeyParked /\ ListParked
SpecSdk == InitSdk /\ [][SdkNext]_vars

InitMcp == McpInit /\ SdkParked /\ AnomParked /\ AuthParked /\ AwsParked /\ TfParked /\ KeyParked /\ ListParked
SpecMcp == InitMcp /\ [][McpNext]_vars

InitAnom == AnomInit /\ SdkParked /\ McpParked /\ AuthParked /\ AwsParked /\ TfParked /\ KeyParked /\ ListParked
SpecAnom == InitAnom /\ [][AnomNext]_vars

InitAuth == AuthInit /\ SdkParked /\ McpParked /\ AnomParked /\ AwsParked /\ TfParked /\ KeyParked /\ ListParked
SpecAuth == InitAuth /\ [][AuthNext]_vars

InitAws == AwsInit /\ SdkParked /\ McpParked /\ AnomParked /\ AuthParked /\ TfParked /\ KeyParked /\ ListParked
SpecAws == InitAws /\ [][AwsNext]_vars

InitTf == TfInit /\ SdkParked /\ McpParked /\ AnomParked /\ AuthParked /\ AwsParked /\ KeyParked /\ ListParked
SpecTf == InitTf /\ [][TfNext]_vars

InitKey == KeyInit /\ SdkParked /\ McpParked /\ AnomParked /\ AuthParked /\ AwsParked /\ TfParked /\ ListParked
SpecKey == InitKey /\ [][KeyNext]_vars

InitList == ListInit /\ SdkParked /\ McpParked /\ AnomParked /\ AuthParked /\ AwsParked /\ TfParked /\ KeyParked
SpecList == InitList /\ [][ListNext]_vars

====
